---- MODULE Spec2Model ----
(***************************************************************************)
(* OTXATSSModelInterpreter (datumaro, openvino_plugin/samples): the        *)
(* letterbox preprocess, the inverse box rescaling of postprocess and      *)
(* get_categories, with Python's float arithmetic (IEEE-754 binary64,      *)
(* round to nearest, ties to even) modelled exactly on arbitrary-precision *)
(* naturals.                                                               *)
(***************************************************************************)
EXTENDS Integers, Sequences, FiniteSets, TLC

(***************************************************************************)
(* Arbitrary-precision naturals: little-endian sequences of limbs in base  *)
(* 2^15, no leading (top) zero limb; <<>> is zero.  TLC's integers are 32  *)
(* bits wide, a binary64 significand has 53.                               *)
(***************************************************************************)
Base == 2^15

RECURSIVE Pow2(_)
Pow2(k) == IF k = 0 THEN 1 ELSE 2 * Pow2(k - 1)

RECURSIVE IntBitLen(_)
IntBitLen(n) == IF n = 0 THEN 0 ELSE 1 + IntBitLen(n \div 2)

LimbBits == IntBitLen(Base) - 1

RECURSIVE BigNorm(_)
BigNorm(a) ==
  IF a = <<>> THEN <<>>
  ELSE IF a[Len(a)] = 0 THEN BigNorm(SubSeq(a, 1, Len(a) - 1)) ELSE a

RECURSIVE BigFromInt(_)
BigFromInt(n) == IF n = 0 THEN <<>> ELSE <<n % Base>> \o BigFromInt(n \div Base)

Limb(a, i) == IF i <= Len(a) THEN a[i] ELSE 0

RECURSIVE AddFrom(_, _, _, _)
AddFrom(a, b, i, carry) ==
  IF i > Len(a) /\ i > Len(b)
  THEN (IF carry = 0 THEN <<>> ELSE <<carry>>)
  ELSE LET x == Limb(a, i) + Limb(b, i) + carry
       IN  <<x % Base>> \o AddFrom(a, b, i + 1, x \div Base)

BigAdd(a, b) == AddFrom(a, b, 1, 0)

\* a - b for a >= b
RECURSIVE SubFrom(_, _, _, _)
SubFrom(a, b, i, borrow) ==
  IF i > Len(a) THEN <<>>
  ELSE LET x == a[i] - Limb(b, i) - borrow
       IN  IF x < 0 THEN <<x + Base>> \o SubFrom(a, b, i + 1, 1)
           ELSE <<x>> \o SubFrom(a, b, i + 1, 0)

BigSub(a, b) == BigNorm(SubFrom(a, b, 1, 0))

\* -1, 0, 1 as a < b, a = b, a > b (both normalised)
RECURSIVE CmpFrom(_, _, _)
CmpFrom(a, b, i) ==
  IF i = 0 THEN 0
  ELSE IF a[i] < b[i] THEN -1
  ELSE IF a[i] > b[i] THEN 1
  ELSE CmpFrom(a, b, i - 1)

BigCmp(a, b) ==
  IF Len(a) < Len(b) THEN -1
  ELSE IF Len(a) > Len(b) THEN 1
  ELSE CmpFrom(a, b, Len(a))

\* a * d for one limb d
RECURSIVE MulLimbFrom(_, _, _, _)
MulLimbFrom(a, d, i, carry) ==
  IF i > Len(a) THEN (IF carry = 0 THEN <<>> ELSE <<carry>>)
  ELSE LET x == a[i] * d + carry
       IN  <<x % Base>> \o MulLimbFrom(a, d, i + 1, x \div Base)

Zeros(n) == [i \in 1..n |-> 0]

RECURSIVE MulFrom(_, _, _)
MulFrom(a, b, i) ==
  IF i > Len(b) THEN <<>>
  ELSE BigAdd(Zeros(i - 1) \o MulLimbFrom(a, b[i], 1, 0), MulFrom(a, b, i + 1))

BigMul(a, b) == BigNorm(MulFrom(a, b, 1))

\* a * 2^k
BigShl(a, k) ==
  IF a = <<>> THEN <<>>
  ELSE Zeros(k \div LimbBits) \o MulLimbFrom(a, Pow2(k % LimbBits), 1, 0)

\* floor(a / 2^k)
RECURSIVE ShrBitsFrom(_, _, _)
ShrBitsFrom(a, s, i) ==
  IF i > Len(a) THEN <<>>
  ELSE <<(a[i] \div Pow2(s)) + (Limb(a, i + 1) % Pow2(s)) * Pow2(LimbBits - s)>>
       \o ShrBitsFrom(a, s, i + 1)

BigShr(a, k) ==
  IF k \div LimbBits >= Len(a) THEN <<>>
  ELSE BigNorm(ShrBitsFrom(SubSeq(a, (k \div LimbBits) + 1, Len(a)), k % LimbBits, 1))

BigBitLen(a) == IF a = <<>> THEN 0 ELSE (Len(a) - 1) * LimbBits + IntBitLen(a[Len(a)])

\* bit i (0 = least significant)
BigBit(a, i) == (Limb(a, (i \div LimbBits) + 1) \div Pow2(i % LimbBits)) % 2

\* a mod 2^k
BigLow(a, k) == BigSub(a, BigShl(BigShr(a, k), k))

\* One step of schoolbook binary long division of n by d: st is the quotient
\* and remainder of the bits of n above bit i, the result those of the bits
\* from bit i up.
DivBit(n, d, i, st) ==
  IF i < 0 THEN st
  ELSE LET r2 == BigNorm(AddFrom(BigShl(st.r, 1), <<BigBit(n, i)>>, 1, 0))
       IN  IF BigCmp(r2, d) >= 0
           THEN [q |-> BigNorm(AddFrom(BigShl(st.q, 1), <<1>>, 1, 0)), r |-> BigSub(r2, d)]
           ELSE [q |-> BigShl(st.q, 1), r |-> r2]

\* Bits i..0 of n remain.  With a zero remainder and only zero bits left the
\* division is exact and the rest of the quotient is zeros; otherwise four
\* more bits are brought down.
RECURSIVE DivStep(_, _, _, _)
DivStep(n, d, i, st) ==
  IF i < 0 THEN st
  ELSE IF st.r = <<>> /\ BigLow(n, i + 1) = <<>>
  THEN [q |-> BigShl(st.q, i + 1), r |-> <<>>]
  ELSE DivStep(n, d, i - 4,
               DivBit(n, d, i - 3, DivBit(n, d, i - 2, DivBit(n, d, i - 1, DivBit(n, d, i, st)))))

\* n = q * d + r, 0 <= r < d, for d > 0.  The top BitLen(d) - 1 bits of n are
\* below d: they start the remainder.
BigDivMod(n, d) ==
  LET s == BigBitLen(n) - (BigBitLen(d) - 1)
  IN  IF s <= 0 THEN [q |-> <<>>, r |-> n]
      ELSE DivStep(n, d, s - 1, [q |-> <<>>, r |-> BigShr(n, s)])

BigToInt(a) == IF a = <<>> THEN 0 ELSE IF Len(a) = 1 THEN a[1] ELSE a[1] + Base * a[2]

(***************************************************************************)
(* IEEE-754 binary64, non-negative finite normal values: [m, e] is the     *)
(* number m * 2^e with 2^52 <= m < 2^53, or zero ([m |-> <<>>, e |-> 0]).  *)
(* Every value of the model lies far inside the normal range.              *)
(***************************************************************************)
\* 52 stored significand bits and the implicit leading one
Precision == 52 + 1

FZero == [m |-> <<>>, e |-> 0]

\* The binary64 nearest (ties to even) to the exact value (n + f) * 2^e, where
\* n is a natural and f a fraction in [0, 1) of which only `sticky`, whether it
\* is non-zero, is known (then n has more than Precision bits).
RoundBig(n, sticky, e) ==
  LET len == BigBitLen(n)
  IN  IF n = <<>> THEN FZero
      ELSE IF len <= Precision
      THEN [m |-> BigNorm(BigShl(n, Precision - len)), e |-> e - (Precision - len)]
      ELSE
        LET drop == len - Precision
            m0   == BigShr(n, drop)
            c    == BigCmp(BigLow(n, drop), BigShl(<<1>>, drop - 1))
            up   == \/ c > 0
                    \/ c = 0 /\ sticky
                    \/ c = 0 /\ ~sticky /\ BigBit(m0, 0) = 1
            m1   == IF up THEN BigAdd(m0, <<1>>) ELSE m0
        IN  IF BigBitLen(m1) > Precision
            THEN [m |-> BigShr(m1, 1), e |-> e + drop + 1]
            ELSE [m |-> m1, e |-> e + drop]

\* float(n) for a Python int n >= 0
FFromInt(n) == RoundBig(BigFromInt(n), FALSE, 0)

FOne == FFromInt(1)

\* x * y
FMul(x, y) == RoundBig(BigMul(x.m, y.m), FALSE, x.e + y.e)

\* x / y for y # 0: the quotient of the significands to Precision + 2 bits and
\* whether anything is left
FDiv(x, y) ==
  IF x.m = <<>> THEN FZero
  ELSE LET qr == BigDivMod(BigShl(x.m, Precision + 2), y.m)
       IN  RoundBig(qr.q, qr.r # <<>>, x.e - y.e - (Precision + 2))

\* -1, 0, 1 as x < y, x = y, x > y
FCmp(x, y) ==
  IF x.m = <<>> THEN (IF y.m = <<>> THEN 0 ELSE -1)
  ELSE IF y.m = <<>> THEN 1
  ELSE IF x.e < y.e THEN -1
  ELSE IF x.e > y.e THEN 1
  ELSE BigCmp(x.m, y.m)

\* Python's min(x, y): the first argument unless the second is smaller
FMin(x, y) == IF FCmp(y, x) < 0 THEN y ELSE x

\* Python's round(x) for a float x >= 0 below 2^30: the nearest int, ties to even
FRoundInt(x) ==
  IF x.m = <<>> THEN 0
  ELSE IF x.e >= 0 THEN BigToInt(BigShl(x.m, x.e))
  ELSE LET drop == -x.e
           q    == BigShr(x.m, drop)
           c    == BigCmp(BigLow(x.m, drop), BigShl(<<1>>, drop - 1))
       IN  BigToInt(q) + (IF c > 0 \/ (c = 0 /\ BigBit(q, 0) = 1) THEN 1 ELSE 0)

(***************************************************************************)
(* Arrays.  A numpy array of a letterboxed solid-colour picture is kept in *)
(* region form: `shape` along the array's axes, `axes` naming each array   *)
(* axis (H rows, W columns, C channels), and the pixels: `value` (one      *)
(* number per channel) at every row < fill[1] and column < fill[2], zero   *)
(* elsewhere.  A decoded solid-colour image fills its whole shape.         *)
(***************************************************************************)
None == "None"

SolidImage(h, w, bgr) ==
  [shape |-> <<h, w, 3>>, axes |-> <<"H", "W", "C">>, fill |-> <<h, w>>, value |-> bgr]

AxisPos(arr, axis) == CHOOSE k \in 1..3 : arr.axes[k] = axis

\* arr[idx] for a 0-based index triple along the array's axes
At(arr, idx) ==
  IF /\ idx[AxisPos(arr, "H")] < arr.fill[1]
     /\ idx[AxisPos(arr, "W")] < arr.fill[2]
  THEN arr.value[idx[AxisPos(arr, "C")] + 1]
  ELSE 0

\* arr.transpose(perm): axis k of the result is axis perm[k] (0-based) of arr
Transpose(arr, perm) ==
  [arr EXCEPT !.shape = [k \in 1..3 |-> arr.shape[perm[k] + 1]],
              !.axes  = [k \in 1..3 |-> arr.axes[perm[k] + 1]]]

\* cv2.cvtColor(arr, cv2.COLOR_BGR2RGB) on a height-width-channel array: a new
\* array with the first and third channel exchanged (zero padding stays zero)
cvtColor_BGR2RGB(arr) ==
  [arr EXCEPT !.value = <<arr.value[3], arr.value[2], arr.value[1]>>]

(***************************************************************************)
(* The class constants and the helpers of samples/utils.py.                *)
(***************************************************************************)
H_MODEL == 736
W_MODEL == 992

\* rescale_img_keeping_aspect_ratio(img, h_model, w_model): the scale
\* s = min(h_model / h_img, w_model / w_img), the image resized to
\* (h_img * s, w_img * s) rounded to integers, in the top-left corner of a
\* zero canvas of (h_model, w_model).  Resizing a solid colour keeps the colour.
rescale_img_keeping_aspect_ratio(img, hm, wm) ==
  LET h_img == img.shape[1]
      w_img == img.shape[2]
      scale == FMin(FDiv(FFromInt(hm), FFromInt(h_img)),
                    FDiv(FFromInt(wm), FFromInt(w_img)))
      h_resized == FRoundInt(FMul(FFromInt(h_img), scale))
      w_resized == FRoundInt(FMul(FFromInt(w_img), scale))
  IN  [image |-> [shape |-> <<hm, wm, img.shape[3]>>,
                  axes  |-> img.axes,
                  fill  |-> <<h_resized, w_resized>>,
                  value |-> img.value],
       scale |-> scale]

\* create_bboxes_with_rescaling(bboxes, labels, r_scale): one annotation per
\* box, in order: the four coordinates times r_scale, with the box's label.
\* No score is handed over, so the annotation has none (score <<>>; <<v>> is
\* the score v).
create_bboxes_with_rescaling(bboxes, labels, r_scale) ==
  [i \in 1..Len(bboxes) |->
     [box   |-> [k \in 1..4 |-> FMul(r_scale, bboxes[i][k])],
      label |-> labels[i],
      score |-> <<>>]]

(***************************************************************************)
(* OTXATSSModelInterpreter, line by line.                                  *)
(***************************************************************************)
\* line 26 with h_model for both targets
preprocess_line26_square(img, hm, wm) == rescale_img_keeping_aspect_ratio(img, hm, hm)

\* line 26 with the targets exchanged
preprocess_line26_swapped(img, hm, wm) == rescale_img_keeping_aspect_ratio(img, wm, hm)

\* output = rescale_img_keeping_aspect_ratio(img, self.h_model, self.w_model)
preprocess_line26(img, hm, wm) == rescale_img_keeping_aspect_ratio(img, hm, wm)

\* line 29 without the conversion
preprocess_line29_keep(image) == image

\* output.image = cv2.cvtColor(output.image, cv2.COLOR_BGR2RGB)
preprocess_line29(image) == cvtColor_BGR2RGB(image)

\* line 31 with height and width exchanged as well
preprocess_line31_chw_swapped(image) == Transpose(image, <<2, 1, 0>>)

\* output.image = output.image.transpose(2, 0, 1)
preprocess_line31(image) == Transpose(image, <<2, 0, 1>>)

\* preprocess(img) run alone
preprocess(img, hm, wm) ==
  LET output == preprocess_line26(img, hm, wm)
  IN  <<preprocess_line31(preprocess_line29(output.image)), output.scale>>

\* line 37 without the inversion
postprocess_line37_same(scale) == scale

\* r_scale = 1 / scale
postprocess_line37(scale) == FDiv(FOne, scale)

\* line 38 handing over all but the first box
postprocess_line38_skip(pred, r_scale) ==
  create_bboxes_with_rescaling(SubSeq(pred.boxes, 2, Len(pred.boxes)),
                               SubSeq(pred.labels, 2, Len(pred.labels)), r_scale)

\* line 38 with the scores of the prediction attached to the annotations
postprocess_line38_scores(pred, r_scale) ==
  LET anns == create_bboxes_with_rescaling(pred.boxes, pred.labels, r_scale)
  IN  [i \in 1..Len(anns) |->
         [anns[i] EXCEPT !.score = IF "scores" \in DOMAIN pred THEN <<pred.scores[i]>> ELSE <<>>]]

\* return create_bboxes_with_rescaling(pred["boxes"], pred["labels"], r_scale)
postprocess_line38(pred, r_scale) ==
  create_bboxes_with_rescaling(pred.boxes, pred.labels, r_scale)

\* postprocess(pred, info) run alone; 1 / 0.0 raises
postprocess(pred, info) ==
  IF info = FZero THEN "ZeroDivisionError"
  ELSE postprocess_line38(pred, postprocess_line37(info))

\* get_categories returning a label table
get_categories_table == "LabelCategories"

\* return None
get_categories == None

(***************************************************************************)
(* Callers and inputs.                                                     *)
(***************************************************************************)
NumCallers == 2
MaxBoxes == 2

Callers == 1..NumCallers

\* (height, width) of the decoded images: half the target, wider than the
\* target, the target itself, two sizes whose scale is no power of two, and a
\* one-row strip
Dims == {<<368, 496>>, <<736, 1984>>, <<736, 992>>, <<700, 700>>, <<1000, 3000>>, <<1, 2000>>}
Colours == {<<255, 0, 0>>, <<10, 20, 30>>}
Images == {SolidImage(d[1], d[2], bgr) : d \in Dims, bgr \in Colours}

\* a box the model predicts, and boxes in original-image coordinates
RawBox == <<100, 100, 200, 200>>
OrigBoxes == {<<7, 3, 333, 1000>>, <<10, 20, 100, 200>>}

IntBox(b) == [k \in 1..4 |-> FFromInt(b[k])]
\* b * s, coordinate by coordinate
ScaledBox(b, s) == [k \in 1..4 |-> FMul(FFromInt(b[k]), s)]

BoxChoices(s) == {IntBox(RawBox)} \cup {ScaledBox(b, s) : b \in OrigBoxes}
LabelChoices(n) == {[i \in 1..n |-> i], [i \in 1..n |-> 10 - i]}
ScoresOf(n) == [i \in 1..n |-> 90 + i]

\* predictions of n boxes for an image preprocessed with scale s: "boxes" and
\* "labels" of equal length, with or without a "scores" entry
PredsOfLen(n, s) ==
  LET core == {[boxes |-> bs, labels |-> ls] :
                 bs \in [1..n -> BoxChoices(s)], ls \in LabelChoices(n)}
  IN  core \cup {[boxes |-> p.boxes, labels |-> p.labels, scores |-> ScoresOf(n)] : p \in core}

Preds(s) == UNION {PredsOfLen(n, s) : n \in 0..MaxBoxes}

\* concurrent callers use two images, one-box predictions and the scale of a
\* 700x700 image
ConcImages == {SolidImage(368, 496, <<255, 0, 0>>), SolidImage(700, 700, <<10, 20, 30>>)}
ConcScales == {FDiv(FFromInt(H_MODEL), FFromInt(700))}
ConcPreds ==
  {[boxes |-> <<IntBox(RawBox)>>, labels |-> <<1>>],
   [boxes |-> <<IntBox(<<7, 3, 333, 1000>>)>>, labels |-> <<9>>, scores |-> ScoresOf(1)]}

(***************************************************************************)
(* State.  The methods are straight-line code; a call is taken one source  *)
(* line at a time (Pre26 .. Pre33, Post37, Post38) so that the calls of     *)
(* several threads interleave between lines.                               *)
(* h_model, w_model: the class attributes.  Per caller: pc, where          *)
(* its call stands; op, the method called; img, pred, info: the arguments; *)
(* r_scale: the local of postprocess; ret: what the call returned.         *)
(* output: the local `output` of preprocess, one slot per call frame,      *)
(* <<>> while there is none.                                               *)
(***************************************************************************)
VARIABLES h_model, w_model, pc, op, img, pred, info, output, r_scale, ret

vars == <<h_model, w_model, pc, op, img, pred, info, output, r_scale, ret>>

Init ==
  /\ h_model = H_MODEL
  /\ w_model = W_MODEL
  /\ pc = [c \in Callers |-> "idle"]
  /\ op = [c \in Callers |-> None]
  /\ img = [c \in Callers |-> None]
  /\ pred = [c \in Callers |-> None]
  /\ info = [c \in Callers |-> None]
  /\ output = [c \in Callers |-> <<>>]
  /\ r_scale = [c \in Callers |-> None]
  /\ ret = [c \in Callers |-> None]

\* `output` of every call in one place, as an attribute of the interpreter
OutputSlotShared(c) == 1

\* `output` is a local: each call has its own
OutputSlot(c) == c

\* a caller calls preprocess(image)
CallPreprocess(c, image) ==
  /\ pc[c] = "idle"
  /\ pc' = [pc EXCEPT ![c] = "pre26"]
  /\ op' = [op EXCEPT ![c] = "preprocess"]
  /\ img' = [img EXCEPT ![c] = image]
  /\ UNCHANGED <<h_model, w_model, pred, info, output, r_scale, ret>>

Pre26(c) ==
  /\ pc[c] = "pre26"
  /\ output' = [output EXCEPT ![OutputSlot(c)] = <<preprocess_line26(img[c], h_model, w_model)>>]
  /\ pc' = [pc EXCEPT ![c] = "pre29"]
  /\ UNCHANGED <<h_model, w_model, op, img, pred, info, r_scale, ret>>

Pre29(c) ==
  /\ pc[c] = "pre29"
  /\ output[OutputSlot(c)] # <<>>
  /\ output' = [output EXCEPT ![OutputSlot(c)] = <<[@[1] EXCEPT !.image = preprocess_line29(@)]>>]
  /\ pc' = [pc EXCEPT ![c] = "pre31"]
  /\ UNCHANGED <<h_model, w_model, op, img, pred, info, r_scale, ret>>

Pre31(c) ==
  /\ pc[c] = "pre31"
  /\ output[OutputSlot(c)] # <<>>
  /\ output' = [output EXCEPT ![OutputSlot(c)] = <<[@[1] EXCEPT !.image = preprocess_line31(@)]>>]
  /\ pc' = [pc EXCEPT ![c] = "pre33"]
  /\ UNCHANGED <<h_model, w_model, op, img, pred, info, r_scale, ret>>

\* return output.image, output.scale
Pre33(c) ==
  /\ pc[c] = "pre33"
  /\ output[OutputSlot(c)] # <<>>
  /\ ret' = [ret EXCEPT ![c] = <<output[OutputSlot(c)][1].image, output[OutputSlot(c)][1].scale>>]
  /\ output' = [output EXCEPT ![OutputSlot(c)] = <<>>]
  /\ pc' = [pc EXCEPT ![c] = "done"]
  /\ UNCHANGED <<h_model, w_model, op, img, pred, info, r_scale>>

\* a caller calls postprocess(p, inf), afresh or with the result of its
\* preprocess call in hand
CallPostprocess(c, p, inf) ==
  /\ pc[c] = "idle" \/ (pc[c] = "done" /\ op[c] = "preprocess")
  /\ pc' = [pc EXCEPT ![c] = "post37"]
  /\ op' = [op EXCEPT ![c] = "postprocess"]
  /\ pred' = [pred EXCEPT ![c] = p]
  /\ info' = [info EXCEPT ![c] = inf]
  /\ img' = [img EXCEPT ![c] = None]
  /\ ret' = [ret EXCEPT ![c] = None]
  /\ UNCHANGED <<h_model, w_model, output, r_scale>>

\* scale = info; r_scale = 1 / scale
Post37(c) ==
  /\ pc[c] = "post37"
  /\ IF info[c] = FZero
     THEN /\ pc' = [pc EXCEPT ![c] = "raised"]
          /\ ret' = [ret EXCEPT ![c] = "ZeroDivisionError"]
          /\ UNCHANGED r_scale
     ELSE /\ pc' = [pc EXCEPT ![c] = "post38"]
          /\ r_scale' = [r_scale EXCEPT ![c] = postprocess_line37(info[c])]
          /\ UNCHANGED ret
  /\ UNCHANGED <<h_model, w_model, op, img, pred, info, output>>

Post38(c) ==
  /\ pc[c] = "post38"
  /\ ret' = [ret EXCEPT ![c] = postprocess_line38(pred[c], r_scale[c])]
  /\ r_scale' = [r_scale EXCEPT ![c] = None]
  /\ pc' = [pc EXCEPT ![c] = "done"]
  /\ UNCHANGED <<h_model, w_model, op, img, pred, info, output>>

GetCategories(c) ==
  /\ pc[c] = "idle"
  /\ pc' = [pc EXCEPT ![c] = "done"]
  /\ op' = [op EXCEPT ![c] = "get_categories"]
  /\ ret' = [ret EXCEPT ![c] = get_categories]
  /\ UNCHANGED <<h_model, w_model, img, pred, info, output, r_scale>>

\* the caller takes the result (or the exception) and is free to call again
Return(c) ==
  /\ pc[c] \in {"done", "raised"}
  /\ pc' = [pc EXCEPT ![c] = "idle"]
  /\ op' = [op EXCEPT ![c] = None]
  /\ img' = [img EXCEPT ![c] = None]
  /\ pred' = [pred EXCEPT ![c] = None]
  /\ info' = [info EXCEPT ![c] = None]
  /\ ret' = [ret EXCEPT ![c] = None]
  /\ UNCHANGED <<h_model, w_model, output, r_scale>>

\* One caller: preprocess an image, then postprocess a prediction for it with
\* the scale preprocess returned (or call postprocess with a zero scale).
SessionPostprocess(c) ==
  /\ pc[c] = "done" /\ op[c] = "preprocess"
  /\ \E p \in Preds(ret[c][2]) : CallPostprocess(c, p, ret[c][2])

ZeroScalePostprocess(c) ==
  /\ pc[c] = "idle"
  /\ \E p \in PredsOfLen(1, FZero) : CallPostprocess(c, p, FZero)

Next ==
  \/ \E image \in Images : CallPreprocess(1, image)
  \/ Pre26(1)
  \/ Pre29(1)
  \/ Pre31(1)
  \/ Pre33(1)
  \/ SessionPostprocess(1)
  \/ ZeroScalePostprocess(1)
  \/ Post37(1)
  \/ Post38(1)
  \/ GetCategories(1)
  \/ Return(1)

Spec == Init /\ [][Next]_vars

\* Several callers, their calls interleaved line by line.
NextConc ==
  \E c \in Callers :
    \/ \E image \in ConcImages : CallPreprocess(c, image)
    \/ Pre26(c)
    \/ Pre29(c)
    \/ Pre31(c)
    \/ Pre33(c)
    \/ \E p \in ConcPreds, s \in ConcScales : CallPostprocess(c, p, s)
    \/ Post37(c)
    \/ Post38(c)
    \/ GetCategories(c)
    \/ Return(c)

SpecConc == Init /\ [][NextConc]_vars

(***************************************************************************)
(* Properties.                                                             *)
(***************************************************************************)
DonePre(c) == pc[c] = "done" /\ op[c] = "preprocess"
DonePost(c) == pc[c] = "done" /\ op[c] = "postprocess"

RatioH(image) == FDiv(FFromInt(736), FFromInt(image.shape[1]))
RatioW(image) == FDiv(FFromInt(992), FFromInt(image.shape[2]))
Half == FDiv(FFromInt(992), FFromInt(1984))
Two == FFromInt(2)

\* C1 as stated: for an image of height <= 736 and width <= 992, the scale
\* preprocess returns is min(736/height, 992/width) and is <= 1.
C1_SmallImageScaleAtMostOne ==
  \A c \in Callers :
    (DonePre(c) /\ img[c].shape[1] <= 736 /\ img[c].shape[2] <= 992)
      => /\ ret[c][2] = FMin(RatioH(img[c]), RatioW(img[c]))
         /\ FCmp(ret[c][2], FOne) <= 0

\* C1 amended: for an image of height <= 736 and width <= 992, the scale
\* preprocess returns is min(736/height, 992/width) and is >= 1.
C1_SmallImageScaleAtLeastOne ==
  \A c \in Callers :
    (DonePre(c) /\ img[c].shape[1] <= 736 /\ img[c].shape[2] <= 992)
      => /\ ret[c][2] = FMin(RatioH(img[c]), RatioW(img[c]))
         /\ FCmp(ret[c][2], FOne) >= 0

\* preprocess has returned for an image smaller than the target, enlarging it
C1_Witness ==
  \E c \in Callers :
    /\ DonePre(c) /\ img[c].shape[1] < 736 /\ img[c].shape[2] < 992
    /\ FCmp(ret[c][2], FOne) > 0

BoxesAre(c, b) ==
  /\ Len(pred[c].boxes) > 0
  /\ \A i \in 1..Len(pred[c].boxes) : pred[c].boxes[i] = IntBox(b)

\* C2 as stated: a 368x496 image gets scale 0.5, and postprocess with that
\* scale maps the box [100,100,200,200] to [200,200,400,400].
C2_HalfSizeImageScaleHalf ==
  \A c \in Callers :
    /\ (DonePre(c) /\ img[c].shape = <<368, 496, 3>>) => ret[c][2] = Half
    /\ (DonePost(c) /\ info[c] = Half /\ BoxesAre(c, RawBox))
         => \A i \in 1..Len(ret[c]) : ret[c][i].box = IntBox(<<200, 200, 400, 400>>)

\* C2 amended: a 368x496 image gets scale 2, and postprocess with that scale
\* maps the box [100,100,200,200] to [50,50,100,100].
C2_HalfSizeImageScaleTwo ==
  \A c \in Callers :
    /\ (DonePre(c) /\ img[c].shape = <<368, 496, 3>>) => ret[c][2] = Two
    /\ (DonePost(c) /\ info[c] = Two /\ BoxesAre(c, RawBox))
         => /\ Len(ret[c]) = Len(pred[c].boxes)
            /\ \A i \in 1..Len(ret[c]) : ret[c][i].box = IntBox(<<50, 50, 100, 100>>)

\* postprocess has returned for the box [100,100,200,200] and the scale of the
\* 368x496 image
C2_Witness ==
  \E c \in Callers : DonePost(c) /\ info[c] = Two /\ BoxesAre(c, RawBox)

\* C3 as stated: postprocess of the box b * s with the scale s preprocess
\* returned yields exactly b.
C3_RoundTripExact ==
  \A c \in Callers :
    DonePost(c) =>
      \A i \in 1..Len(pred[c].boxes) : \A b \in OrigBoxes :
        pred[c].boxes[i] = ScaledBox(b, info[c]) => ret[c][i].box = IntBox(b)

\* |x - n| <= n * 2^-51 for a float x and an int n >= 0
WithinRounding(x, n) ==
  IF x.m = <<>> THEN n = 0
  ELSE LET xs == IF x.e >= 0 THEN BigShl(x.m, x.e) ELSE x.m
           ns == IF x.e >= 0 THEN BigFromInt(n) ELSE BigShl(BigFromInt(n), -x.e)
           d  == IF BigCmp(xs, ns) >= 0 THEN BigSub(xs, ns) ELSE BigSub(ns, xs)
       IN  BigCmp(BigShl(d, 51), ns) <= 0

\* C3 amended: postprocess of the box b * s with the scale s preprocess
\* returned yields b up to floating-point rounding: each coordinate differs
\* from that of b by at most 2^-51 of it.
C3_RoundTripWithinRounding ==
  \A c \in Callers :
    DonePost(c) =>
      /\ Len(ret[c]) = Len(pred[c].boxes)
      /\ \A i \in 1..Len(pred[c].boxes) : \A b \in OrigBoxes :
           pred[c].boxes[i] = ScaledBox(b, info[c])
             => \A k \in 1..4 : WithinRounding(ret[c][i].box[k], b[k])

\* postprocess has returned for a box b * s, and not exactly b
C3_Witness ==
  \E c \in Callers :
    /\ DonePost(c)
    /\ \E i \in 1..Len(pred[c].boxes) : \E b \in OrigBoxes :
         pred[c].boxes[i] = ScaledBox(b, info[c]) /\ ret[c][i].box # IntBox(b)

\* C4: postprocess returns one annotation per box of the prediction, and
\* annotation i is box i times 1/scale with label i.
C4_OneAnnotationPerBoxInOrder ==
  \A c \in Callers :
    DonePost(c) =>
      /\ Len(ret[c]) = Len(pred[c].boxes)
      /\ \A i \in 1..Len(pred[c].boxes) :
           /\ ret[c][i].label = pred[c].labels[i]
           /\ ret[c][i].box = [k \in 1..4 |-> FMul(FDiv(FOne, info[c]), pred[c].boxes[i][k])]

\* postprocess has returned for two equal boxes with labels in descending order
C4_Witness ==
  \E c \in Callers :
    /\ DonePost(c) /\ Len(ret[c]) = 2
    /\ pred[c].boxes[1] = pred[c].boxes[2]
    /\ pred[c].labels[1] > pred[c].labels[2]

\* C5: the scale preprocess returns is the smaller of 736/height and
\* 992/width for every image; for 736x1984 it is 992/1984 = 0.5, not 1.
C5_ScaleIsSmallerRatio ==
  \A c \in Callers :
    DonePre(c) =>
      /\ ret[c][2] \in {RatioH(img[c]), RatioW(img[c])}
      /\ FCmp(ret[c][2], RatioH(img[c])) <= 0
      /\ FCmp(ret[c][2], RatioW(img[c])) <= 0
      /\ img[c].shape = <<736, 1984, 3>> => (ret[c][2] = Half /\ ret[c][2] # RatioH(img[c]))

\* preprocess has returned for the 736x1984 image
C5_Witness ==
  \E c \in Callers : DonePre(c) /\ img[c].shape = <<736, 1984, 3>>

\* rows and columns at the corners of the array and on both sides of the edge
\* of the filled region
ProbeRows(a) == {0, a.fill[1] - 1, a.fill[1], 735} \cap 0..735
ProbeCols(a) == {0, a.fill[2] - 1, a.fill[2], 991} \cap 0..991

\* C6: the array preprocess returns has spatial size (736, 992); the resized
\* image, of the integer size (height * s, width * s) within the target, is
\* in the top-left corner and the rest is zero.
C6_LetterboxedIntoTarget ==
  \A c \in Callers :
    DonePre(c) =>
      LET a == ret[c][1]
          s == ret[c][2]
      IN  /\ a.shape[2] = 736 /\ a.shape[3] = 992
          /\ a.fill[1] = FRoundInt(FMul(FFromInt(img[c].shape[1]), s))
          /\ a.fill[2] = FRoundInt(FMul(FFromInt(img[c].shape[2]), s))
          /\ a.fill[1] <= 736 /\ a.fill[2] <= 992
          /\ \A y \in ProbeRows(a) : \A x \in ProbeCols(a) : \A ch \in 0..2 :
               IF y < a.fill[1] /\ x < a.fill[2]
               THEN At(a, <<ch, y, x>>) = img[c].value[3 - ch]
               ELSE At(a, <<ch, y, x>>) = 0

\* preprocess has returned for an image that leaves rows of padding
C6_Witness ==
  \E c \in Callers :
    DonePre(c) /\ ret[c][1].fill[1] > 0 /\ ret[c][1].fill[1] < 736 /\ ret[c][1].fill[2] = 992

\* C7: the array preprocess returns is channel-first (first axis of length
\* 3), and its channels are the input's with the first and third exchanged:
\* pure blue, BGR (255,0,0), becomes (0,0,255).
C7_ChannelFirstRGB ==
  \A c \in Callers :
    (DonePre(c) /\ ret[c][1].fill[1] > 0 /\ ret[c][1].fill[2] > 0) =>
      LET a == ret[c][1]
          rgb == [ch \in 1..3 |-> At(a, <<ch - 1, 0, 0>>)]
      IN  /\ a.shape[1] = 3
          /\ rgb = <<img[c].value[3], img[c].value[2], img[c].value[1]>>
          /\ img[c].value = <<255, 0, 0>> => rgb = <<0, 0, 255>>

\* preprocess has returned for a pure-blue image
C7_Witness ==
  \E c \in Callers :
    DonePre(c) /\ img[c].value = <<255, 0, 0>> /\ ret[c][1].fill[1] > 0 /\ ret[c][1].fill[2] > 0

\* C8: get_categories returns None, whatever else has been or is being called.
C8_GetCategoriesNone ==
  \A c \in Callers : (pc[c] = "done" /\ op[c] = "get_categories") => ret[c] = None

\* get_categories has returned while another caller is inside preprocess
C8_Witness ==
  \E c, d \in Callers :
    pc[c] = "done" /\ op[c] = "get_categories" /\ pc[d] \in {"pre29", "pre31", "pre33"}

\* what the call of caller c returns when it runs alone
Alone(c) ==
  CASE op[c] = "preprocess" -> preprocess(img[c], 736, 992)
    [] op[c] = "postprocess" -> postprocess(pred[c], info[c])
    [] op[c] = "get_categories" -> None

\* C9: under any interleaving every call returns what it returns alone, the
\* targets stay 736 and 992, and a running call leaves its arguments as they
\* were.
C9_Stateless ==
  /\ [](\A c \in Callers : pc[c] = "done" => ret[c] = Alone(c))
  /\ [](h_model = 736 /\ w_model = 992)
  /\ [][\A c \in Callers :
          pc[c] \notin {"idle", "done", "raised"}
            => (img'[c] = img[c] /\ pred'[c] = pred[c] /\ info'[c] = info[c])]_vars

\* a preprocess call has returned while another caller, with another image,
\* is inside preprocess
C9_Witness ==
  \E c, d \in Callers :
    /\ DonePre(c) /\ pc[d] \in {"pre29", "pre31", "pre33"}
    /\ img[c] # img[d]

\* C10 as stated: when the prediction has scores under a key of their own,
\* annotation i carries the score of box i.
C10_ScoresConsumed ==
  \A c \in Callers :
    (DonePost(c) /\ "scores" \in DOMAIN pred[c]) =>
      \A i \in 1..Len(pred[c].boxes) : ret[c][i].score = <<pred[c].scores[i]>>

\* C10 amended: postprocess reads only "boxes" and "labels": scores under a
\* key of their own are ignored, no annotation carries a score, and the
\* result is that for the prediction without the scores.
C10_SeparateScoresIgnored ==
  \A c \in Callers :
    DonePost(c) =>
      /\ \A i \in 1..Len(ret[c]) : ret[c][i].score = <<>>
      /\ ret[c] = postprocess([boxes |-> pred[c].boxes, labels |-> pred[c].labels], info[c])

\* postprocess has returned for a prediction that has scores
C10_Witness ==
  \E c \in Callers :
    DonePost(c) /\ "scores" \in DOMAIN pred[c] /\ Len(ret[c]) > 0
====
